---- MODULE Spec2Model ----
(***************************************************************************)
(* Model of flask_http_middleware/manager.py: the MiddlewareManager that   *)
(* keeps a registry of middleware units, copies it into a per-request      *)
(* stack, threads a request through the units (each unit receiving the     *)
(* dispatcher itself as its continuation) and splices this chain into the  *)
(* host framework's request lifecycle.                                     *)
(***************************************************************************)
EXTENDS Integers, Sequences, FiniteSets, TLC

\* Largest number of units registered with add_middleware.
MaxUnits == 2

\* Number of requests served concurrently in the concurrent specification.
MaxRequests == 2
Requests == 1..MaxRequests

\* self.app.before_first_request_funcs, in the order the loop calls them
InitFuncs == <<"f1", "f2">>

\* Classes handed to add_middleware.  The first set are subclasses of
\* BaseHTTPMiddleware, named after what their dispatch does:
\*   Pass   calls the continuation once and returns what it returned
\*   Twice  calls the continuation twice and returns the second result
\*   Short  returns its own response without calling the continuation
\*   RaiseH raises an exception the host has a registered handler for
\*   RaiseU raises an exception no registered handler matches
\*   Catch  calls the continuation once inside try/except and answers an
\*          exception of the continuation with its own response
MiddlewareClasses == {"Pass", "Twice", "Short", "RaiseH", "RaiseU", "Catch"}
OtherClasses == {"NotMW"}
Classes == MiddlewareClasses \cup OtherClasses

\* What the route's view function does at each invocation.
Views == {"ok", "raiseH", "raiseU", "flaky"}
Variants == {"A", "B", "C"}
Routes == {"view", "routingExc", "autoOptions"}

\* Registration namespaces: 0 is the application (the key None), 1 a blueprint,
\* 2 a blueprint nested in it.
Names == {0, 1, 2}
BlueprintPaths == {<<>>, <<1>>, <<2, 1>>}
\* What a before-request hook does: return None, return a value, raise, or
\* raise at its first invocation and return None afterwards.
HookLists == {<<>>, <<"none">>, <<"value">>, <<"raise">>, <<"flaky">>,
              <<"none", "value">>}

VARIABLES
    registry,    \* self.middleware_stack: units, index 1 = front of the list
    addCls,      \* the class given to the add_middleware call that has just
                 \* returned or raised ("" when the last call was not one)
    addResult,   \* its outcome: "ok", "error" ("none" when there is none)
    pc,          \* position of the request in __call__
    variant,     \* which flask_version branch __call__ takes
    view,        \* behaviour of the view function of the matched rule
    ensureSync,  \* whether self.app.ensure_sync exists on the host
    route,       \* what routing produced for the request
    gstack,      \* g.middleware_stack
    frames,      \* active calls of process_request_and_get_response that hold a unit
    flight,      \* the value or exception on its way to the caller on top of frames
    response,    \* the local variable response of __call__
    error,       \* the local variable error of __call__
    result,      \* what __call__ gave its caller
    popErr,      \* the argument of ctx.pop / ctx.auto_pop
    log,         \* history of the request: the events in the order they happened
    vcalls,      \* number of invocations of the view function so far
    nexc,        \* number of exception objects raised so far
    blueprints,  \* request.blueprints: the request's namespaces, innermost first
    beforeFuncs, \* self.app.before_request_funcs: namespace -> hooks
    urlFuncs,    \* self.app.url_value_preprocessors: namespace -> number of functions
    processed,   \* whether response is the return value of process_response
    debugHook,   \* whether environ holds "werkzeug.debug.preserve_context"
                 \* (drawn when the finally clause looks it up)
    gotFirst,    \* self.app._got_first_request
    initRuns,    \* how often each before_first_request function has been called
    initIdx,     \* the position of the loop over before_first_request_funcs
    lock,        \* holder of self.app._before_request_lock (0: free)
    creq         \* the concurrent requests: position, g.middleware_stack, active units

vars == <<registry, addCls, addResult, pc, variant, view, ensureSync, route,
          gstack, frames, flight, response, error, result, popErr, log,
          vcalls, nexc, blueprints, beforeFuncs, urlFuncs, debugHook, processed,
          gotFirst, initRuns, initIdx, lock, creq>>

\* The inputs of a request, the one-time initialisation of the host, and the
\* state of the concurrent requests.
Inputs == <<variant, view, ensureSync, route, blueprints, beforeFuncs, urlFuncs>>
First == <<gotFirst, initRuns, initIdx>>
Conc == <<lock, creq>>
Env == <<Inputs, debugHook, First, Conc>>

----------------------------------------------------------------------------
\* Values

Resp(k, n) == [k |-> k, n |-> n]
NoResp == Resp("unbound", 0)

Exc(id, h, src) == [id |-> id, h |-> h, src |-> src]
NoExc == Exc(0, FALSE, 0)

None == [k |-> "none", v |-> NoResp, e |-> NoExc]
Ret(v) == [k |-> "ret", v |-> v, e |-> NoExc]
Raised(e) == [k |-> "exc", v |-> NoResp, e |-> e]

\* One event of the history: ev is its kind, u the unit it concerns (0: none),
\* x an exception or invocation number, d the nesting depth of the dispatcher
\* call it belongs to (0: the entry point), r a response.
Ev(ev, u, x, d, r) == [ev |-> ev, u |-> u, x |-> x, d |-> d, r |-> r]

Unit(id, cls) == [id |-> id, cls |-> cls]

\* Source tags of exceptions that do not come from a unit (a unit's exception
\* carries the unit's id, the route procedure's carries 0).
SrcPre == 0 - 1
SrcUnbound == 0 - 2
SrcHook == 0 - 3

\* Number of continuation calls the dispatch of a class makes.
Wanted(cls) ==
    CASE cls = "Pass" -> 1
      [] cls = "Catch" -> 1
      [] cls = "Twice" -> 2
      [] OTHER -> 0

----------------------------------------------------------------------------
\* add_middleware

IsMiddlewareClass_Any(cls) == TRUE

\* BaseHTTPMiddleware.__subclasscheck__(middleware_class)
IsMiddlewareClass(cls) == cls \in MiddlewareClasses

RegistryInsert_AtEnd(reg, unit) == Append(reg, unit)

\* self.middleware_stack.insert(0, middleware_class(**options))
RegistryInsert(reg, unit) == <<unit>> \o reg

\* add_middleware(middleware_class): a subclass of BaseHTTPMiddleware is
\* instantiated and inserted, anything else raises.
AddMiddleware ==
    /\ pc = "setup"
    /\ \E cls \in Classes :
          /\ addCls' = cls
          /\ IF IsMiddlewareClass(cls)
                THEN /\ Len(registry) < MaxUnits
                     /\ registry' = RegistryInsert(registry, Unit(Len(registry) + 1, cls))
                     /\ addResult' = "ok"
                ELSE /\ registry' = registry
                     /\ addResult' = "error"
    /\ UNCHANGED <<pc, gstack, frames, flight, response, error, result, popErr,
                   log, vcalls, nexc, processed, Env>>

----------------------------------------------------------------------------
\* The terminal route procedure

\* What the k-th invocation of the view function does: TRUE when it raises.
ViewRaises(vw, k) ==
    CASE vw = "ok" -> FALSE
      [] vw = "flaky" -> k = 1
      [] OTHER -> TRUE

ViewExcHandled(vw) == vw # "raiseU"

\* dispatch_request followed by make_response, called at nesting depth d with
\* vc view invocations and ne exceptions so far.  The view is called through
\* ensure_sync inside a try whose bare except calls the view again.
DispatchRequest(d, vc, ne) ==
    IF route = "routingExc"
    THEN [res |-> Raised(Exc(ne + 1, TRUE, 0)),
          evs |-> <<Ev("raise", 0, ne + 1, d, NoResp)>>, nv |-> vc, ne |-> ne + 1]
    ELSE IF route = "autoOptions"
    THEN [res |-> Ret(Resp("options", 0)), evs |-> <<>>, nv |-> vc, ne |-> ne]
    ELSE IF ~ensureSync
    THEN \* self.app.ensure_sync is missing: the except branch makes the call
         IF ViewRaises(view, vc + 1)
         THEN [res |-> Raised(Exc(ne + 1, ViewExcHandled(view), 0)),
               evs |-> <<Ev("view", 0, vc + 1, d, NoResp),
                         Ev("raise", 0, ne + 1, d, NoResp)>>,
               nv |-> vc + 1, ne |-> ne + 1]
         ELSE [res |-> Ret(Resp("view", vc + 1)),
               evs |-> <<Ev("view", 0, vc + 1, d, NoResp)>>,
               nv |-> vc + 1, ne |-> ne]
    ELSE IF ~ViewRaises(view, vc + 1)
    THEN [res |-> Ret(Resp("view", vc + 1)),
          evs |-> <<Ev("view", 0, vc + 1, d, NoResp)>>,
          nv |-> vc + 1, ne |-> ne]
    ELSE \* the view raised inside the try: the bare except calls it again
         IF ViewRaises(view, vc + 2)
         THEN [res |-> Raised(Exc(ne + 2, ViewExcHandled(view), 0)),
               evs |-> <<Ev("view", 0, vc + 1, d, NoResp),
                         Ev("raise", 0, ne + 1, d, NoResp),
                         Ev("view", 0, vc + 2, d, NoResp),
                         Ev("raise", 0, ne + 2, d, NoResp)>>,
               nv |-> vc + 2, ne |-> ne + 2]
         ELSE [res |-> Ret(Resp("view", vc + 2)),
               evs |-> <<Ev("view", 0, vc + 1, d, NoResp),
                         Ev("raise", 0, ne + 1, d, NoResp),
                         Ev("view", 0, vc + 2, d, NoResp)>>,
               nv |-> vc + 2, ne |-> ne + 1]

----------------------------------------------------------------------------
\* The Exception Bridge

ProcessRequestAndHandleException_Reraise(e) == Raised(e)

\* process_request_and_handle_exception: handle_user_exception returns the
\* registered handler's value, or raises the exception again when no handler
\* matches it; make_response turns the value into a response.
ProcessRequestAndHandleException(e) ==
    IF e.h THEN Ret(Resp("bridge", e.id)) ELSE Raised(e)

----------------------------------------------------------------------------
\* The Chain Dispatcher

Pop_Front(stack) == [mw |-> stack[1], rest |-> Tail(stack)]

Pop_Peek(stack) == [mw |-> stack[Len(stack)], rest |-> stack]

\* mw = g.middleware_stack.pop(): the last element leaves the list
Pop(stack) == [mw |-> stack[Len(stack)], rest |-> SubSeq(stack, 1, Len(stack) - 1)]

Restore_Skip(stack, mw) == stack

\* finally: g.middleware_stack.append(mw)
Restore(stack, mw) == Append(stack, mw)

Top == frames[Len(frames)]
Below == SubSeq(frames, 1, Len(frames) - 1)

Frame(mw, entry) ==
    [mw |-> mw, entry |-> entry, calls |-> 0, last |-> NoResp, caught |-> FALSE]

\* process_request_and_get_response called with g.middleware_stack = stack by
\* the code whose frames are callerFrames, with lg the history up to the call.
\* With a unit on the stack the unit is popped and its dispatch begins; with an
\* empty stack the route procedure runs, outside any try, and its result goes
\* straight to the caller.
ProcessRequestAndGetResponse(stack, callerFrames, lg) ==
    LET d == Len(callerFrames) + 1 IN
    IF stack # <<>>
    THEN /\ gstack' = Pop(stack).rest
         /\ frames' = Append(callerFrames, Frame(Pop(stack).mw, stack))
         /\ flight' = None
         /\ log' = Append(lg, Ev("enter", Pop(stack).mw.id, 0, d, NoResp))
         /\ UNCHANGED <<vcalls, nexc>>
    ELSE LET r == DispatchRequest(d, vcalls, nexc) IN
         /\ gstack' = stack
         /\ frames' = callerFrames
         /\ flight' = r.res
         /\ log' = Append(lg, Ev("term", 0, 0, d, NoResp)) \o r.evs
         /\ vcalls' = r.nv
         /\ nexc' = r.ne

\* The except and finally clauses of the dispatcher call that holds Top, taken
\* when the dispatch of its unit raised e.
DispatcherExcept(e, lg) ==
    LET b == ProcessRequestAndHandleException(e)
        d == Len(frames) IN
    /\ flight' = b
    /\ gstack' = Restore(gstack, Top.mw)
    /\ frames' = Below
    /\ log' = lg \o <<Ev("bridge", Top.mw.id, e.id, d, b.v),
                      Ev("exit", Top.mw.id, IF b.k = "ret" THEN 1 ELSE 2, d, b.v)>>

Adapter == <<pc, response, error, result, popErr, processed, Env>>
Setup == <<registry, addCls, addResult>>

\* The running unit calls its continuation.
UnitCallNext ==
    /\ pc = "chain" /\ frames # <<>> /\ flight.k = "none"
    /\ ~Top.caught
    /\ Top.calls < Wanted(Top.mw.cls)
    /\ ProcessRequestAndGetResponse(gstack,
           [frames EXCEPT ![Len(frames)].calls = @ + 1], log)
    /\ UNCHANGED <<Adapter, Setup>>

\* The continuation returns a response to the unit that called it.
ContinuationReturns ==
    /\ pc = "chain" /\ frames # <<>> /\ flight.k = "ret"
    /\ frames' = [frames EXCEPT ![Len(frames)].last = flight.v]
    /\ flight' = None
    /\ log' = Append(log, Ev("cont_ret", Top.mw.id, 0, Len(frames), flight.v))
    /\ UNCHANGED <<gstack, vcalls, nexc, Adapter, Setup>>

\* The continuation raises into a unit whose dispatch catches the exception.
UnitCatches ==
    /\ pc = "chain" /\ frames # <<>> /\ flight.k = "exc"
    /\ Top.mw.cls = "Catch"
    /\ frames' = [frames EXCEPT ![Len(frames)].caught = TRUE]
    /\ flight' = None
    /\ log' = Append(log, Ev("cont_exc", Top.mw.id, flight.e.id, Len(frames), NoResp))
    /\ UNCHANGED <<gstack, vcalls, nexc, Adapter, Setup>>

\* The continuation raises into a unit that lets the exception through: it
\* leaves the unit's dispatch and reaches the except clause of the dispatcher.
UnitPropagates ==
    /\ pc = "chain" /\ frames # <<>> /\ flight.k = "exc"
    /\ Top.mw.cls # "Catch"
    /\ DispatcherExcept(flight.e,
           Append(log, Ev("cont_exc", Top.mw.id, flight.e.id, Len(frames), NoResp)))
    /\ UNCHANGED <<vcalls, nexc, Adapter, Setup>>

\* The value a unit's dispatch returns.
UnitValue(f) ==
    IF f.mw.cls = "Short" \/ f.caught THEN Resp("unit", f.mw.id) ELSE f.last

\* The unit's dispatch returns: the dispatcher returns the value, the finally
\* clause puts the unit back.
UnitReturns ==
    /\ pc = "chain" /\ frames # <<>> /\ flight.k = "none"
    /\ Top.mw.cls \notin {"RaiseH", "RaiseU"}
    /\ Top.caught \/ Top.calls = Wanted(Top.mw.cls)
    /\ flight' = Ret(UnitValue(Top))
    /\ gstack' = Restore(gstack, Top.mw)
    /\ frames' = Below
    /\ log' = Append(log, Ev("exit", Top.mw.id, 0, Len(frames), UnitValue(Top)))
    /\ UNCHANGED <<vcalls, nexc, Adapter, Setup>>

\* The unit's dispatch raises an exception of its own.
UnitRaises ==
    /\ pc = "chain" /\ frames # <<>> /\ flight.k = "none"
    /\ Top.mw.cls \in {"RaiseH", "RaiseU"}
    /\ nexc' = nexc + 1
    /\ DispatcherExcept(Exc(nexc + 1, Top.mw.cls = "RaiseH", Top.mw.id),
           Append(log, Ev("raise", Top.mw.id, nexc + 1, Len(frames), NoResp)))
    /\ UNCHANGED <<vcalls, Adapter, Setup>>

----------------------------------------------------------------------------
\* The Lifecycle Adapter: __call__


CreateMiddlewareStack_Alias(reg) == [own |-> FALSE, list |-> <<>>]

\* g.middleware_stack = self.middleware_stack.copy(): a new list object with
\* the registry's elements (own: g.middleware_stack is not the registry object).
CreateMiddlewareStack(reg) == [own |-> TRUE, list |-> reg]

SecondCheck_Skipped(got) == TRUE

\* if not self.app._got_first_request: -- the test made again inside the lock
SecondCheck(got) == ~got

\* The before_request hook create_middleware_stack is registered when the
\* manager is built, so the host's pre-processing runs it before the hooks
\* registered later and after those registered earlier (and after every
\* URL-value preprocessor): ran tells whether it had run when the
\* pre-processing ended.
StackAfterHooks(ran, stack) ==
    IF ran THEN CreateMiddlewareStack(registry).list ELSE stack

\* ctx = self.app.request_context(environ); error = None; ctx.push().
\* Variant B goes on to the first-request initialization of lines 75-80;
\* variant C calls the host's try_trigger_before_first_request_functions,
\* which runs the functions and sets the flag; variant A has neither.  The
\* outcome of the add_middleware call before it is no longer at hand.
Enter ==
    /\ pc = "setup"
    /\ pc' = IF variant = "B" THEN "check1" ELSE "pushed"
    /\ log' = Append(log, Ev("push", 0, 0, 0, NoResp))
    /\ IF variant = "C" /\ ~gotFirst
          THEN /\ gotFirst' = TRUE
               /\ initRuns' = [f \in DOMAIN InitFuncs |-> initRuns[f] + 1]
               /\ initIdx' = initIdx
          ELSE UNCHANGED First
    /\ addCls' = "" /\ addResult' = "none"
    /\ UNCHANGED <<registry, Inputs, debugHook, Conc, processed, gstack, frames,
                   flight, response, error, result, popErr, vcalls, nexc>>

\* What the steps of the first-request initialization leave alone.
InitFrame ==
    <<Setup, Inputs, debugHook, creq, processed, gstack, frames, flight, response, error,
      result, popErr, log, vcalls, nexc>>

\* if not self.app._got_first_request: -- the test made outside the lock
FirstCheck ==
    /\ pc = "check1"
    /\ pc' = IF ~gotFirst THEN "acquire" ELSE "pushed"
    /\ UNCHANGED <<InitFrame, First, lock>>

\* with self.app._before_request_lock: -- waits until the lock is free; the
\* thread of this request holds it as 1.
Acquire ==
    /\ pc = "acquire" /\ lock = 0
    /\ lock' = 1
    /\ pc' = "check2"
    /\ UNCHANGED <<InitFrame, First>>

\* if not self.app._got_first_request: -- inside the lock
SecondCheckStep ==
    /\ pc = "check2"
    /\ IF SecondCheck(gotFirst)
          THEN pc' = "run" /\ initIdx' = 1
          ELSE pc' = "release" /\ initIdx' = initIdx
    /\ UNCHANGED <<InitFrame, gotFirst, initRuns, lock>>

\* for func in self.app.before_first_request_funcs: self.app.ensure_sync(func)()
RunInit ==
    /\ pc = "run" /\ initIdx <= Len(InitFuncs)
    /\ initRuns' = [initRuns EXCEPT ![initIdx] = @ + 1]
    /\ initIdx' = initIdx + 1
    /\ UNCHANGED <<InitFrame, pc, gotFirst, lock>>

\* self.app._got_first_request = True
SetFlag ==
    /\ pc = "run" /\ initIdx > Len(InitFuncs)
    /\ gotFirst' = TRUE
    /\ pc' = "release"
    /\ UNCHANGED <<InitFrame, initRuns, initIdx, lock>>

\* the end of the with block releases the lock
Release ==
    /\ pc = "release"
    /\ lock' = 0
    /\ pc' = "pushed"
    /\ UNCHANGED <<InitFrame, First>>

\* The except clauses of __call__ reached by an exception e raised by
\* pre-processing or by the chain: process_request_and_handle_exception(e),
\* and, when that raises again, the outer except with handle_exception(e),
\* which answers with a response or raises in its turn.
AdapterExcept(e, lg) ==
    LET b == ProcessRequestAndHandleException(e)
        lgb == Append(lg, Ev("bridge", 0, e.id, 0, b.v)) IN
    IF b.k = "ret"
    THEN /\ response' = b.v
         /\ pc' = "finalize"
         /\ flight' = None
         /\ log' = lgb
         /\ error' = error
    ELSE /\ error' = b.e
         /\ pc' = "respond"
         /\ log' = Append(lgb, Ev("toplevel", 0, b.e.id, 0, NoResp))
         /\ \E reraises \in BOOLEAN :
               IF reraises
               THEN flight' = Raised(b.e) /\ response' = response
               ELSE flight' = None /\ response' = Resp("top", b.e.id)

\* Variants B and C: request_started.send; rv = self.app.preprocess_request()
\* returns None, having run the before_request hook create_middleware_stack;
\* then response = self.process_request_and_get_response(request).
PreprocessNone ==
    /\ pc = "pushed" /\ variant \in {"B", "C"}
    /\ pc' = "chain"
    /\ ProcessRequestAndGetResponse(registry, <<>>,
           Append(log, Ev("pre", 0, 0, 0, NoResp)))
    /\ UNCHANGED <<Setup, Env, processed, response, error, result, popErr>>

\* Variants B and C: a before-request hook of the host returns a value, so rv
\* is not None and the assignment to response is skipped.  The hook was
\* registered before the manager was built (create_middleware_stack has not
\* run) or after it (it has).
PreprocessValue ==
    /\ pc = "pushed" /\ variant \in {"B", "C"}
    /\ pc' = "finalize"
    /\ log' = Append(log, Ev("pre", 0, 1, 0, Resp("pre", 0)))
    /\ \E ran \in BOOLEAN : gstack' = StackAfterHooks(ran, gstack)
    /\ UNCHANGED <<Setup, Env, processed, frames, flight, response, error, result,
                   popErr, vcalls, nexc>>

\* Variants B and C: the host's pre-processing raises, in a URL-value
\* preprocessor or a hook that runs before create_middleware_stack, or in a
\* hook that runs after it.
PreprocessRaises ==
    /\ pc = "pushed" /\ variant \in {"B", "C"}
    /\ \E h \in BOOLEAN :
          /\ nexc' = nexc + 1
          /\ AdapterExcept(Exc(nexc + 1, h, SrcPre),
                 Append(log, Ev("raise", 0, nexc + 1, 0, NoResp)))
    /\ \E ran \in BOOLEAN : gstack' = StackAfterHooks(ran, gstack)
    /\ UNCHANGED <<Setup, Env, processed, frames, result, popErr, vcalls>>

\* The outermost dispatcher call comes back to __call__.
AdapterReceives ==
    /\ pc = "chain" /\ frames = <<>> /\ flight.k # "none"
    /\ IF flight.k = "ret"
          THEN /\ response' = flight.v
               /\ pc' = "finalize"
               /\ flight' = None
               /\ error' = error
               /\ log' = Append(log, Ev("chain_ret", 0, 0, 0, flight.v))
          ELSE AdapterExcept(flight.e, Append(log, Ev("chain_exc", 0, flight.e.id, 0, NoResp)))
    /\ UNCHANGED <<Setup, Env, processed, gstack, frames, result, popErr, vcalls, nexc>>

\* response = self.app.process_response(response); request_finished.send:
\* both succeed, and response is now what the post-processing hooks returned.
FinalizeOk ==
    /\ pc = "finalize" /\ response # NoResp
    /\ pc' = "respond"
    /\ processed' = TRUE
    /\ log' = Append(log, Ev("processed", 0, 0, 0, response))
    /\ UNCHANGED <<Setup, Env, gstack, frames, flight, response, error, result,
                   popErr, vcalls, nexc>>

\* (The except clause of lines 91-94 is what keeps the exception from the
\* outer except clause; without it the exception would be delegated.)
FinalizeFails_Propagates ==
    /\ pc = "finalize" /\ response # NoResp
    /\ pc' = "respond"
    /\ nexc' = nexc + 1
    /\ error' = Exc(nexc + 1, FALSE, SrcHook)
    /\ response' = Resp("top", nexc + 1)
    /\ log' = log \o <<Ev("raise", 0, nexc + 1, 0, NoResp),
                       Ev("toplevel", 0, nexc + 1, 0, NoResp)>>
    /\ UNCHANGED <<Setup, Env, gstack, frames, flight, result, popErr, vcalls,
                   processed>>

\* A post-processing hook raises inside process_response: response is not
\* reassigned, and the except clause logs the exception.
FinalizeFails ==
    /\ pc = "finalize" /\ response # NoResp
    /\ pc' = "respond"
    /\ nexc' = nexc + 1
    /\ log' = log \o <<Ev("raise", 0, nexc + 1, 0, NoResp),
                       Ev("logged", 0, nexc + 1, 0, NoResp)>>
    /\ UNCHANGED <<Setup, Env, gstack, frames, flight, response, error, result,
                   popErr, vcalls, processed>>

\* process_response returns and response is reassigned; then a receiver of
\* request_finished raises, and the except clause logs the exception.
FinishedSignalFails ==
    /\ pc = "finalize" /\ response # NoResp
    /\ pc' = "respond"
    /\ processed' = TRUE
    /\ nexc' = nexc + 1
    /\ log' = log \o <<Ev("processed", 0, 0, 0, response),
                       Ev("raise", 0, nexc + 1, 0, NoResp),
                       Ev("logged", 0, nexc + 1, 0, NoResp)>>
    /\ UNCHANGED <<Setup, Env, gstack, frames, flight, response, error, result,
                   popErr, vcalls>>

\* response was never assigned: reading it to call process_response raises
\* UnboundLocalError, which the except clause logs.
FinalizeUnbound ==
    /\ pc = "finalize" /\ response = NoResp
    /\ pc' = "respond"
    /\ nexc' = nexc + 1
    /\ log' = log \o <<Ev("raise", 0, nexc + 1, 0, NoResp),
                       Ev("logged", 0, nexc + 1, 0, NoResp)>>
    /\ UNCHANGED <<Setup, Env, processed, gstack, frames, flight, response, error, result,
                   popErr, vcalls>>

\* Variant A: response = self.app.full_dispatch_request().  The host runs its
\* own pre-processing (so the before_request hook copies the registry), its own
\* dispatch of the view and its own user-exception handling; an exception it
\* does not handle reaches handle_exception.
HostFullDispatch ==
    /\ pc = "pushed" /\ variant = "A"
    /\ pc' = "respond"
    /\ gstack' = registry
    /\ vcalls' = 1
    /\ IF ~ViewRaises(view, 1)
          THEN /\ response' = Resp("view", 1)
               /\ log' = Append(log, Ev("view", 0, 1, 0, NoResp))
               /\ UNCHANGED <<nexc, error, flight>>
          ELSE /\ nexc' = nexc + 1
               /\ IF ViewExcHandled(view)
                     THEN /\ response' = Resp("host", nexc + 1)
                          /\ log' = log \o <<Ev("view", 0, 1, 0, NoResp),
                                             Ev("raise", 0, nexc + 1, 0, NoResp)>>
                          /\ UNCHANGED <<error, flight>>
                     ELSE /\ error' = Exc(nexc + 1, FALSE, 0)
                          /\ log' = log \o <<Ev("view", 0, 1, 0, NoResp),
                                             Ev("raise", 0, nexc + 1, 0, NoResp),
                                             Ev("toplevel", 0, nexc + 1, 0, NoResp)>>
                          /\ \E reraises \in BOOLEAN :
                                IF reraises
                                THEN flight' = Raised(Exc(nexc + 1, FALSE, 0))
                                     /\ response' = response
                                ELSE flight' = None
                                     /\ response' = Resp("top", nexc + 1)
    /\ UNCHANGED <<Setup, Env, processed, frames, result, popErr>>

\* A BaseException that is not an Exception (KeyboardInterrupt, SystemExit)
\* reaches the bare except clause: error = sys.exc_info()[1]; raise.  It is
\* raised during the pre-processing, before or after create_middleware_stack.
Interrupt ==
    /\ pc = "pushed"
    /\ pc' = "respond"
    /\ nexc' = nexc + 1
    /\ error' = Exc(nexc + 1, FALSE, SrcPre)
    /\ flight' = Raised(Exc(nexc + 1, FALSE, SrcPre))
    /\ log' = Append(log, Ev("raise", 0, nexc + 1, 0, NoResp))
    /\ \E ran \in BOOLEAN : gstack' = StackAfterHooks(ran, gstack)
    /\ UNCHANGED <<Setup, Env, frames, response, result, popErr, vcalls,
                   processed>>

\* The debugger hook of the finally clause: variants A and B call
\* environ["werkzeug.debug.preserve_context"] with _cv_app.get() (1) and with
\* _cv_request.get() (2); variant C has no such code.
PreserveEvents_AllVariants(var, hook) ==
    IF hook
    THEN <<Ev("preserve", 0, 1, 0, NoResp), Ev("preserve", 0, 2, 0, NoResp)>>
    ELSE <<>>

PreserveEvents(var, hook) ==
    IF hook /\ var \in {"A", "B"}
    THEN <<Ev("preserve", 0, 1, 0, NoResp), Ev("preserve", 0, 2, 0, NoResp)>>
    ELSE <<>>

\* if should_ignore_error(error): error = None -- the argument of the pop.
PopArgument_KeepsError(err, ignorable) == err

PopArgument(err, ignorable) == IF ignorable THEN NoExc ELSE err

\* try: ... finally: the finally clause runs whether the try block returned or
\* raised.
FinallyClause_SkippedOnRaise(raised, evs) == IF raised THEN <<>> ELSE evs

FinallyClause(raised, evs) == evs

\* return response(environ, start_response), then the finally clause: the
\* debugger hook, should_ignore_error, and ctx.pop(error) / ctx.auto_pop(error).
\* When should_ignore_error answers true, error is set to None before the pop.
\* The "pop" event records the argument of the pop and, in its fourth field,
\* what should_ignore_error answers (1: ignorable).
Respond ==
    /\ pc = "respond"
    /\ pc' = "done"
    /\ \E ignorable, hook \in BOOLEAN :
          LET raisesUnbound == flight.k # "exc" /\ response = NoResp
              evs == IF raisesUnbound
                     THEN <<Ev("raise", 0, nexc + 1, 0, NoResp)>> ELSE <<>>
              arg == PopArgument(error, ignorable)
          IN  /\ result' = IF flight.k = "exc" THEN flight
                           ELSE IF raisesUnbound
                           THEN Raised(Exc(nexc + 1, FALSE, SrcUnbound))
                           ELSE Ret(response)
              /\ nexc' = IF raisesUnbound THEN nexc + 1 ELSE nexc
              /\ error' = arg
              /\ popErr' = arg
              /\ debugHook' = hook
              /\ log' = log \o evs \o
                        FinallyClause(flight.k = "exc" \/ raisesUnbound,
                            PreserveEvents(variant, hook)
                                \o <<Ev("pop", 0, arg.id, IF ignorable THEN 1 ELSE 0, NoResp)>>)
    /\ flight' = None
    /\ UNCHANGED <<Setup, Inputs, First, Conc, gstack, frames, response, vcalls,
                   processed>>

----------------------------------------------------------------------------
\* The pre-processing helper: preprocess_request

Reverse(s) == [i \in 1..Len(s) |-> s[Len(s) + 1 - i]]

HelperNames_InnermostFirst(bps) == bps \o <<0>>

\* names = (None, *reversed(request.blueprints))
HelperNames(bps) == <<0>> \o Reverse(bps)

\* The first loop: every URL-value preprocessor of every name, in order.
RECURSIVE UrlEvents(_)
UrlEvents(ns) ==
    IF ns = <<>> THEN <<>>
    ELSE [i \in 1..urlFuncs[Head(ns)] |-> Ev("url", Head(ns), i, 0, NoResp)]
         \o UrlEvents(Tail(ns))

\* The hooks the second loop visits, in order.
RECURSIVE BeforeList(_)
BeforeList(ns) ==
    IF ns = <<>> THEN <<>>
    ELSE [i \in 1..Len(beforeFuncs[Head(ns)]) |->
             [name |-> Head(ns), idx |-> i, b |-> beforeFuncs[Head(ns)][i]]]
         \o BeforeList(Tail(ns))

\* What the k-th invocation of a hook does.
HookOutcome(b, k) ==
    CASE b = "flaky" -> IF k = 1 THEN "raise" ELSE "none"
      [] OTHER -> b

HookValue(h) == Resp("hook", 10 * h.name + h.idx)
RetNone == Ret(Resp("None", 0))

\* The second loop over the hooks hs with ne exceptions so far:
\* try: rv = ensure_sync(before_func)()  except: rv = before_func()
\* and the first rv that is not None is returned.
RECURSIVE RunBefore(_, _)
RunBefore(hs, ne) ==
    IF hs = <<>> THEN [res |-> RetNone, evs |-> <<>>, ne |-> ne]
    ELSE
    LET h == Head(hs)
        call == Ev("before", h.name, h.idx, 0, NoResp)
        \* the outcome of the invocation whose result the loop uses, the events
        \* up to it and the exceptions raised before it
        first == HookOutcome(h.b, 1)
        retried == ensureSync /\ first = "raise"
        out == IF retried THEN HookOutcome(h.b, 2) ELSE first
        pre == IF retried
               THEN <<call, Ev("hook_raise", h.name, ne + 1, 0, NoResp), call>>
               ELSE <<call>>
        n1 == IF retried THEN ne + 1 ELSE ne
    IN  IF out = "raise"
        THEN [res |-> Raised(Exc(n1 + 1, FALSE, SrcHook)),
              evs |-> Append(pre, Ev("hook_raise", h.name, n1 + 1, 0, NoResp)),
              ne |-> n1 + 1]
        ELSE IF out = "value"
        THEN [res |-> Ret(HookValue(h)), evs |-> pre, ne |-> n1]
        ELSE LET rest == RunBefore(Tail(hs), n1)
             IN  [res |-> rest.res, evs |-> pre \o rest.evs, ne |-> rest.ne]

\* A call of preprocess_request(request) on the manager.
CallPreprocessRequest ==
    /\ pc = "helper"
    /\ pc' = "helperDone"
    /\ LET ns == HelperNames(blueprints)
           r == RunBefore(BeforeList(ns), nexc)
       IN  /\ log' = log \o UrlEvents(ns) \o r.evs
           /\ result' = r.res
           /\ nexc' = r.ne
    /\ UNCHANGED <<Setup, Env, processed, gstack, frames, flight, response, error, popErr,
                   vcalls>>

----------------------------------------------------------------------------

\* A concurrent request that has not entered __call__.
IdleRequest ==
    [pc |-> "idle", own |-> TRUE, list |-> <<>>, active |-> <<>>, i |-> 0]

NoHooks == [n \in Names |-> <<>>]
NoUrlFuncs == [n \in Names |-> 0]

\* Either a request is about to be served by an application under setup, or
\* preprocess_request is about to be called on a fresh manager.
Init ==
    /\ registry = <<>>
    /\ addCls = ""
    /\ addResult = "none"
    /\ \/ /\ pc = "setup"
          /\ variant \in Variants
          /\ view \in Views
          /\ ensureSync \in BOOLEAN
          /\ route \in Routes
          /\ (route # "view") => (view = "ok" /\ ensureSync)
          /\ (~ensureSync) => (variant = "C")
          /\ (variant = "A") => (route = "view")
          /\ blueprints = <<>>
          /\ beforeFuncs = NoHooks
          /\ urlFuncs = NoUrlFuncs
          /\ debugHook = FALSE
       \/ /\ pc = "helper"
          /\ variant = "C"
          /\ view = "ok"
          /\ ensureSync \in BOOLEAN
          /\ route = "view"
          /\ blueprints \in BlueprintPaths
          /\ beforeFuncs \in [Names -> HookLists]
          /\ urlFuncs \in [Names -> 0..1]
          /\ debugHook = FALSE
    /\ gstack = <<>>
    /\ frames = <<>>
    /\ flight = None
    /\ response = NoResp
    /\ error = NoExc
    /\ result = None
    /\ popErr = NoExc
    /\ log = <<>>
    /\ vcalls = 0
    /\ nexc = 0
    /\ processed = FALSE
    /\ gotFirst = FALSE
    /\ initRuns = [f \in DOMAIN InitFuncs |-> 0]
    /\ initIdx = 0
    /\ lock = 0
    /\ creq = [r \in Requests |-> IdleRequest]

Next ==
    \/ AddMiddleware
    \/ Enter
    \/ FirstCheck
    \/ Acquire
    \/ SecondCheckStep
    \/ RunInit
    \/ SetFlag
    \/ Release
    \/ PreprocessNone
    \/ PreprocessValue
    \/ PreprocessRaises
    \/ UnitCallNext
    \/ ContinuationReturns
    \/ UnitCatches
    \/ UnitPropagates
    \/ UnitReturns
    \/ UnitRaises
    \/ AdapterReceives
    \/ FinalizeOk
    \/ FinalizeFails
    \/ FinishedSignalFails
    \/ Interrupt
    \/ FinalizeUnbound
    \/ HostFullDispatch
    \/ Respond
    \/ CallPreprocessRequest

Spec == Init /\ [][Next]_vars

\* The steps of the thread that serves the request, from the call of
\* __call__ to its return.
RequestStep ==
    \/ Enter
    \/ FirstCheck \/ Acquire \/ SecondCheckStep \/ RunInit \/ SetFlag \/ Release
    \/ PreprocessNone \/ PreprocessValue \/ PreprocessRaises \/ Interrupt
    \/ HostFullDispatch
    \/ UnitCallNext \/ ContinuationReturns \/ UnitCatches \/ UnitPropagates
    \/ UnitReturns \/ UnitRaises
    \/ AdapterReceives
    \/ FinalizeOk \/ FinalizeFails \/ FinishedSignalFails \/ FinalizeUnbound
    \/ Respond

\* The thread that serves a request keeps running: Python code that can take
\* a step eventually takes one.
SpecLive == Spec /\ WF_vars(RequestStep)

----------------------------------------------------------------------------
\* Concurrent requests (Variant B).  Every request is served by its own thread
\* running __call__; the threads share the registry (self.middleware_stack),
\* the flag self.app._got_first_request and the lock
\* self.app._before_request_lock, and each has its own flask.g.

\* The statements of lines 76-80 that run while the lock is held.
InsideGuard == {"check2", "run", "release"}

\* The contents of the list object c[r]'s g.middleware_stack refers to.
StackOfIn(c, reg, r) == IF c[r].own THEN c[r].list ELSE reg
StackOf(r) == StackOfIn(creq, registry, r)

\* Request r becomes rec and the list its g.middleware_stack refers to becomes s.
WriteStack(r, s, rec) ==
    IF creq[r].own
    THEN /\ creq' = [creq EXCEPT ![r] = [rec EXCEPT !.list = s]]
         /\ registry' = registry
    ELSE /\ creq' = [creq EXCEPT ![r] = rec]
         /\ registry' = s

RestOfModel ==
    <<addCls, addResult, pc, gstack, frames, flight, response, error, result,
      popErr, log, vcalls, nexc, processed, Inputs, debugHook>>

\* add_middleware called while requests are being served.
ConcAddMiddleware ==
    /\ Len(registry) < MaxUnits
    /\ IsMiddlewareClass("Pass")
    /\ registry' = RegistryInsert(registry, Unit(Len(registry) + 1, "Pass"))
    /\ UNCHANGED <<RestOfModel, First, Conc>>

\* ctx.push()
CPush(r) ==
    /\ creq[r].pc = "idle"
    /\ creq' = [creq EXCEPT ![r].pc = "check1"]
    /\ UNCHANGED <<RestOfModel, First, registry, lock>>

\* if not self.app._got_first_request: -- the test made outside the lock
CFirstCheck(r) ==
    /\ creq[r].pc = "check1"
    /\ creq' = [creq EXCEPT ![r].pc = IF ~gotFirst THEN "acquire" ELSE "start"]
    /\ UNCHANGED <<RestOfModel, First, registry, lock>>

\* with self.app._before_request_lock: -- blocks until the lock is free
CAcquire(r) ==
    /\ creq[r].pc = "acquire" /\ lock = 0
    /\ lock' = r
    /\ creq' = [creq EXCEPT ![r].pc = "check2"]
    /\ UNCHANGED <<RestOfModel, First, registry>>

CSecondCheck(r) ==
    /\ creq[r].pc = "check2"
    /\ creq' = [creq EXCEPT ![r] = IF SecondCheck(gotFirst)
                                   THEN [@ EXCEPT !.pc = "run", !.i = 1]
                                   ELSE [@ EXCEPT !.pc = "release"]]
    /\ UNCHANGED <<RestOfModel, First, registry, lock>>

\* for func in self.app.before_first_request_funcs: self.app.ensure_sync(func)()
CRunInit(r) ==
    /\ creq[r].pc = "run" /\ creq[r].i <= Len(InitFuncs)
    /\ initRuns' = [initRuns EXCEPT ![creq[r].i] = @ + 1]
    /\ creq' = [creq EXCEPT ![r].i = @ + 1]
    /\ UNCHANGED <<RestOfModel, gotFirst, initIdx, registry, lock>>

\* self.app._got_first_request = True
CSetFlag(r) ==
    /\ creq[r].pc = "run" /\ creq[r].i > Len(InitFuncs)
    /\ gotFirst' = TRUE
    /\ creq' = [creq EXCEPT ![r].pc = "release"]
    /\ UNCHANGED <<RestOfModel, initRuns, initIdx, registry, lock>>

\* the end of the with block releases the lock
CRelease(r) ==
    /\ creq[r].pc = "release"
    /\ lock' = 0
    /\ creq' = [creq EXCEPT ![r].pc = "start"]
    /\ UNCHANGED <<RestOfModel, First, registry>>

\* request_started.send(self)
CStarted(r) ==
    /\ creq[r].pc = "start"
    /\ creq' = [creq EXCEPT ![r].pc = "pre"]
    /\ UNCHANGED <<RestOfModel, First, registry, lock>>

\* rv = self.app.preprocess_request(): the before_request hook
\* create_middleware_stack runs, and rv is None.
CSnapshot(r) ==
    /\ creq[r].pc = "pre"
    /\ LET g == CreateMiddlewareStack(registry) IN
       creq' = [creq EXCEPT ![r] = [@ EXCEPT !.pc = "down", !.own = g.own,
                                             !.list = g.list]]
    /\ UNCHANGED <<RestOfModel, First, registry, lock>>

\* process_request_and_get_response with a unit on the stack: the unit is
\* popped and its dispatch begins.
CPop(r) ==
    /\ creq[r].pc = "down" /\ StackOf(r) # <<>>
    /\ WriteStack(r, Pop(StackOf(r)).rest,
           [creq[r] EXCEPT !.active = Append(@, Pop(StackOf(r)).mw)])
    /\ UNCHANGED <<RestOfModel, First, lock>>

\* The innermost call returns or raises: the route procedure ran on the empty
\* stack, or the active unit answers without calling its continuation.
CInner(r) ==
    /\ creq[r].pc = "down"
    /\ StackOf(r) = <<>> \/ creq[r].active # <<>>
    /\ creq' = [creq EXCEPT ![r].pc = "up"]
    /\ UNCHANGED <<RestOfModel, First, registry, lock>>

\* finally: g.middleware_stack.append(mw) for the innermost active unit
CRestore(r) ==
    /\ creq[r].pc = "up" /\ creq[r].active # <<>>
    /\ LET a == creq[r].active IN
       WriteStack(r, Restore(StackOf(r), a[Len(a)]),
           [creq[r] EXCEPT !.active = SubSeq(a, 1, Len(a) - 1)])
    /\ UNCHANGED <<RestOfModel, First, lock>>

\* The unit that got its continuation's result calls the continuation again.
CCallAgain(r) ==
    /\ creq[r].pc = "up" /\ creq[r].active # <<>>
    /\ creq' = [creq EXCEPT ![r].pc = "down"]
    /\ UNCHANGED <<RestOfModel, First, registry, lock>>

\* The outermost call is back in __call__, which finalizes, returns and pops.
CFinish(r) ==
    /\ creq[r].pc = "up" /\ creq[r].active = <<>>
    /\ creq' = [creq EXCEPT ![r].pc = "done"]
    /\ UNCHANGED <<RestOfModel, First, registry, lock>>

RequestSteps(r) ==
    \/ CPush(r) \/ CFirstCheck(r) \/ CAcquire(r) \/ CSecondCheck(r)
    \/ CRunInit(r) \/ CSetFlag(r) \/ CRelease(r) \/ CStarted(r)
    \/ CSnapshot(r) \/ CPop(r) \/ CInner(r) \/ CRestore(r) \/ CCallAgain(r)
    \/ CFinish(r)

InitConc ==
    /\ registry = <<>> /\ addCls = "" /\ addResult = "none"
    /\ pc = "setup"
    /\ variant = "B" /\ view = "ok" /\ ensureSync = TRUE /\ route = "view"
    /\ blueprints = <<>> /\ beforeFuncs = NoHooks /\ urlFuncs = NoUrlFuncs
    /\ debugHook = FALSE
    /\ gstack = <<>> /\ frames = <<>> /\ flight = None
    /\ response = NoResp /\ error = NoExc /\ result = None /\ popErr = NoExc
    /\ log = <<>> /\ vcalls = 0 /\ nexc = 0 /\ processed = FALSE
    /\ gotFirst = FALSE
    /\ initRuns = [f \in DOMAIN InitFuncs |-> 0]
    /\ initIdx = 0
    /\ lock = 0
    /\ creq = [r \in Requests |-> IdleRequest]

NextConc ==
    \/ ConcAddMiddleware
    \/ \E r \in Requests : RequestSteps(r)

SpecConc == InitConc /\ [][NextConc]_vars

----------------------------------------------------------------------------
\* Reading the history

Idx == DOMAIN log

\* The chain dispatcher was entered from __call__ (pre-processing gave None).
ChainRan == \E i \in Idx : log[i].ev = "pre" /\ log[i].x = 0
ChainDone == ChainRan /\ pc \in {"finalize", "respond", "done"}

IsChainEv(e) == e.ev \in {"enter", "term", "exit"}
ChainTrace == SelectSeq(log, IsChainEv)

N == Len(registry)
UnitCls(u) == registry[CHOOSE k \in DOMAIN registry : registry[k].id = u].cls
AllClsIn(S) == \A k \in DOMAIN registry : registry[k].cls \in S

\* Exception number x was raised by the terminal route procedure.
TerminalExc(x) ==
    \E i \in Idx : log[i].ev = "raise" /\ log[i].x = x /\ log[i].u = 0 /\ log[i].d >= 1

BridgeCalls(x) == Cardinality({i \in Idx : log[i].ev = "bridge" /\ log[i].x = x})
Count(ev, u) == Cardinality({i \in Idx : log[i].ev = ev /\ log[i].u = u})

----------------------------------------------------------------------------
\* C1: with units u1..uN registered in that order and every unit calling its
\* continuation exactly once, the units are entered in the order u1..uN, then
\* the terminal route procedure runs, then the units complete in the order
\* uN..u1; at every moment the history of the chain is a prefix of that order.
C1_RegistrationOrder ==
    (ChainRan /\ AllClsIn({"Pass", "Catch"})) =>
        LET t == ChainTrace IN
        /\ Len(t) <= 2 * N + 1
        /\ ChainDone => Len(t) = 2 * N + 1
        /\ \A j \in DOMAIN t :
              IF j <= N THEN t[j].ev = "enter" /\ t[j].u = j
              ELSE IF j = N + 1 THEN t[j].ev = "term"
              ELSE t[j].ev = "exit" /\ t[j].u = 2 * N + 2 - j

C1_Witness ==
    /\ pc = "done" /\ ChainRan /\ N = 2 /\ AllClsIn({"Pass"})
    /\ Len(ChainTrace) = 5
    /\ ChainTrace[1].u = 1 /\ ChainTrace[5].u = 1

\* C2: in variants B and C a short-circuit value of pre-processing is the
\* request's response: the chain is not invoked, the value goes through
\* post-processing and the entry point returns it.
C2_ShortCircuitIsResponse ==
    (pc = "done" /\ \E i \in Idx : log[i].ev = "pre" /\ log[i].x = 1) =>
        /\ \A i \in Idx : ~IsChainEv(log[i])
        /\ \E i \in Idx : log[i].ev = "processed" /\ log[i].r = Resp("pre", 0)
        /\ result = Ret(Resp("pre", 0))

\* C3 as stated: an exception of the terminal route procedure is caught by
\* the dispatcher call that ran it, so no unit ever observes one from its
\* continuation.
C3_NoUnitObservesTerminalExc ==
    \A i \in Idx : log[i].ev = "cont_exc" => ~TerminalExc(log[i].x)

\* C3 amended: an exception of the terminal route procedure leaves the
\* dispatcher call that ran it.  With units registered it reaches the innermost
\* unit as an exception of its continuation; if that unit lets it through, the
\* dispatcher call holding that unit hands it to the Bridge, and when a handler
\* matches no unit outside the innermost one observes it: the next unit out
\* receives the Bridge's response.  With no unit registered it reaches the
\* entry point, which hands it to the Bridge.
C3_InnermostObservesTerminalExc ==
    /\ \A i \in Idx :
          \* the exception that leaves the route procedure (not followed by the
          \* second invocation of the view)
          (/\ log[i].ev = "raise" /\ log[i].u = 0 /\ log[i].d >= 1
           /\ i + 1 \in Idx /\ log[i + 1].ev # "view") =>
             IF log[i].d = 1
             THEN log[i + 1].ev = "chain_exc" /\ log[i + 1].x = log[i].x
             ELSE /\ log[i + 1].ev = "cont_exc" /\ log[i + 1].x = log[i].x
                  /\ log[i + 1].u = N /\ log[i].d = N + 1
    /\ \A i \in Idx :
          (log[i].ev = "cont_exc" /\ TerminalExc(log[i].x) /\ ViewExcHandled(view)) =>
             /\ log[i].u = N
             /\ (UnitCls(N) # "Catch" /\ i + 3 \in Idx) =>
                   /\ log[i + 1].ev = "bridge" /\ log[i + 1].d = N
                   /\ log[i + 1].x = log[i].x
                   /\ log[i + 3].ev = IF N = 1 THEN "chain_ret" ELSE "cont_ret"
                   /\ log[i + 3].u = N - 1
                   /\ log[i + 3].r = Resp("bridge", log[i].x)

C3_Witness ==
    /\ pc = "done" /\ N = 2 /\ AllClsIn({"Pass"})
    /\ \E i \in Idx : /\ log[i].ev = "cont_exc" /\ log[i].u = 2
                      /\ TerminalExc(log[i].x)
                      /\ i + 3 \in Idx
                      /\ log[i + 3].ev = "cont_ret" /\ log[i + 3].u = 1
                      /\ log[i + 3].r = Resp("bridge", log[i].x)

\* C4: when the dispatch of a unit raises an exception the host has a handler
\* for, every unit outside it gets the Bridge's response as the return value
\* of its continuation, never an exception, and completes normally.
C4_OuterUnitsGetBridgeResponse ==
    \A i \in Idx :
        (log[i].ev = "raise" /\ log[i].u >= 1 /\ UnitCls(log[i].u) = "RaiseH") =>
            LET k == log[i].u IN
            /\ \A j \in Idx : log[j].ev = "cont_exc" => log[j].x # log[i].x
            /\ \A j \in Idx : (log[j].ev = "cont_exc") => log[j].u >= k
            /\ \A j \in Idx : (log[j].ev = "exit" /\ log[j].u < k) => log[j].x = 0
            /\ (i + 3 \in Idx) =>
                  /\ log[i + 3].ev = IF k = 1 THEN "chain_ret" ELSE "cont_ret"
                  /\ log[i + 3].u = k - 1
                  /\ log[i + 3].r = Resp("bridge", log[i].x)
            /\ (pc = "done") =>
                  \A u \in 1..(k - 1) : \E j \in Idx :
                      /\ j > i /\ log[j].ev = "exit" /\ log[j].u = u
                      /\ log[j].x = 0 /\ log[j].r.k = "bridge"

C4_Witness ==
    /\ pc = "done" /\ N = 2
    /\ UnitCls(1) = "Pass" /\ UnitCls(2) = "RaiseH"
    /\ \E i \in Idx : /\ log[i].ev = "cont_ret" /\ log[i].u = 1
                      /\ log[i].r.k = "bridge"
    /\ \E i \in Idx : log[i].ev = "exit" /\ log[i].u = 1 /\ log[i].x = 0
    /\ result.k = "ret" /\ result.v.k = "bridge"

\* C5: every dispatcher call leaves g.middleware_stack as it found it, however
\* it exits: the call that holds a unit (return, short-circuit, exception
\* absorbed or raised again by the Bridge) and the call on the empty stack; so
\* a second call in sequence starts from, and leaves, the same stack as the
\* first.
C5_ExitStep ==
    /\ (Len(frames') < Len(frames)) => gstack' = frames[Len(frames)].entry
    /\ (pc = "chain" /\ Len(frames') = Len(frames)) => gstack' = gstack
    /\ (pc = "chain" /\ frames # <<>> /\ frames' = <<>>) => gstack' = registry
    /\ (Len(frames') > Len(frames) /\ frames # <<>> /\ Top.calls >= 1) =>
           frames'[Len(frames')].entry = gstack
C5_StackRestored == [][C5_ExitStep]_vars

C5_Witness ==
    /\ pc = "done" /\ N = 2 /\ gstack = registry
    /\ \E i \in Idx : log[i].ev = "exit" /\ log[i].x = 2 /\ log[i].d = 2
    /\ \E i \in Idx : log[i].ev = "exit" /\ log[i].x = 2 /\ log[i].d = 1

\* C6: a unit that returns without calling its continuation short-circuits:
\* while it runs nothing else runs (its entry is directly followed by its exit),
\* no unit registered after it and no terminal route procedure is executed, and
\* the unit outside it (the one registered just before it, or the entry point)
\* receives the unit's own return value.
C6_ShortCircuit ==
    \A i \in Idx :
        (log[i].ev = "enter" /\ UnitCls(log[i].u) = "Short") =>
            LET s == log[i].u IN
            /\ (i + 1 \in Idx) =>
                  /\ log[i + 1].ev = "exit" /\ log[i + 1].u = s
                  /\ log[i + 1].x = 0 /\ log[i + 1].r = Resp("unit", s)
            /\ (i + 2 \in Idx) =>
                  /\ log[i + 2].ev = IF s = 1 THEN "chain_ret" ELSE "cont_ret"
                  /\ log[i + 2].u = s - 1
                  /\ log[i + 2].r = Resp("unit", s)
            /\ \A j \in Idx : log[j].ev = "enter" => log[j].u <= s
            /\ \A j \in Idx : log[j].ev \notin {"term", "view"}

C6_Witness ==
    /\ pc = "done" /\ N = 2
    /\ UnitCls(1) = "Pass" /\ UnitCls(2) = "Short"
    /\ Count("enter", 2) = 1
    /\ result = Ret(Resp("unit", 2))

\* C7: when one unit calls its continuation twice, every unit inside it calls
\* its continuation once and nothing raises, every inner unit and the terminal
\* route procedure (with the view) run exactly twice, in the same nested order
\* both times.
TwiceAt(k) ==
    /\ k \in 1..N
    /\ \A u \in 1..N : UnitCls(u) = IF u = k THEN "Twice" ELSE "Pass"
    /\ route # "routingExc" /\ view = "ok"

InnerTrace(k) ==
    LET Inner(e) == e.d > k /\ e.ev \in {"enter", "term", "view", "exit"}
    IN  SelectSeq(log, Inner)

C7_TwiceRunsInnerChainTwice ==
    \A k \in 1..N :
        (TwiceAt(k) /\ ChainDone) =>
            LET t == InnerTrace(k)
                h == 2 * (N - k) + 1 + (IF route = "view" THEN 1 ELSE 0)
            IN  /\ Len(t) = 2 * h
                /\ \A u \in (k + 1)..N : Count("enter", u) = 2 /\ Count("exit", u) = 2
                /\ Count("term", 0) = 2
                /\ route = "view" => Count("view", 0) = 2
                /\ \A j \in 1..h : t[j].ev = t[j + h].ev /\ t[j].u = t[j + h].u
                /\ \A j \in 1..(N - k) :
                      /\ t[j].ev = "enter" /\ t[j].u = k + j
                      /\ t[h + 1 - j].ev = "exit" /\ t[h + 1 - j].u = k + j
                /\ t[N - k + 1].ev = "term"

C7_Witness ==
    /\ pc = "done" /\ N = 2 /\ TwiceAt(1) /\ route = "view" /\ ChainRan
    /\ Count("enter", 2) = 2 /\ Count("view", 0) = 2 /\ Count("enter", 1) = 1

\* C8: no retries: every dispatcher call that reaches the empty stack invokes
\* the view function exactly once, whether it returns or raises, and the
\* pre-processing helper invokes every before-request hook at most once.
C8_NoRetries ==
    /\ (route = "view") =>
          Cardinality({i \in Idx : log[i].ev = "view" /\ log[i].d >= 1})
              = Cardinality({i \in Idx : log[i].ev = "term"})
    /\ \A n \in Names, k \in 1..2 :
          Cardinality({i \in Idx : log[i].ev = "before" /\ log[i].u = n /\ log[i].x = k}) <= 1

\* The raise event i is of an exception the host has a registered handler for.
RaiseHandled(i) ==
    IF log[i].u >= 1 THEN UnitCls(log[i].u) = "RaiseH" ELSE ViewExcHandled(view)

\* The exception of raise event i leaves the code that raised it (it is not
\* the exception of a first invocation of the view, answered by a second one).
Leaves(i) == i + 1 \in Idx /\ log[i + 1].ev # "view"

\* C9 as stated: the Bridge is invoked exactly once over the whole request for
\* every exception raised inside a unit or the terminal route procedure,
\* whether or not a handler matches it.
\* (The exception of a first invocation of the view that a second invocation
\* answers never leaves the route procedure and is left out here.)
C9_BridgeOncePerException ==
    (pc = "done") =>
        \A i \in Idx :
            (log[i].ev = "raise" /\ log[i].d >= 1 /\ Leaves(i)) =>
                BridgeCalls(log[i].x) = 1

\* C9 amended: each time an exception leaves the dispatch of a unit, or leaves
\* the chain into the entry point, the Bridge is invoked exactly once for it at
\* that level.  When a registered handler matches, that is the only invocation
\* for the exception over the whole request; when none matches, the Bridge
\* raises it again and is invoked once more at every enclosing level the
\* exception leaves: for an exception that left nesting depth k and that no
\* unit catches, k times in the dispatcher and once in the entry point.
C9_BridgeOncePerLevel ==
    /\ \A i \in Idx :
          (log[i].ev = "bridge") =>
              \A j \in Idx : (j < i /\ log[j].ev = "bridge" /\ log[j].x = log[i].x) =>
                  log[j].d > log[i].d /\ log[j].r = NoResp
    /\ \A i \in Idx :
          (\/ log[i].ev = "raise" /\ log[i].u >= 1
           \/ log[i].ev = "cont_exc" /\ UnitCls(log[i].u) # "Catch"
           \/ log[i].ev = "chain_exc") =>
              /\ i + 1 \in Idx
              /\ log[i + 1].ev = "bridge" /\ log[i + 1].x = log[i].x
              /\ log[i + 1].d = log[i].d
    /\ \A i \in Idx :
          (log[i].ev = "raise" /\ log[i].d >= 1 /\ RaiseHandled(i)) =>
              /\ BridgeCalls(log[i].x) <= 1
              /\ (pc = "done" /\ log[i].u >= 1) => BridgeCalls(log[i].x) = 1
    /\ \A i \in Idx :
          (/\ pc = "done" /\ log[i].ev = "raise" /\ log[i].d >= 1
           /\ ~RaiseHandled(i) /\ Leaves(i) /\ AllClsIn(MiddlewareClasses \ {"Catch"})) =>
              BridgeCalls(log[i].x) = (IF log[i].u >= 1 THEN log[i].d ELSE log[i].d - 1) + 1

C9_Witness ==
    /\ pc = "done" /\ N = 2
    /\ UnitCls(1) = "Pass" /\ UnitCls(2) = "RaiseU"
    /\ \E i \in Idx : log[i].ev = "raise" /\ log[i].u = 2 /\ BridgeCalls(log[i].x) = 3

\* C10: add_middleware with a class that is not a subclass of the base
\* middleware class fails and leaves the registry as it was; with a conforming
\* class it inserts exactly one new unit at index 0 and leaves the other
\* elements and their order unchanged.
C10_AddStep ==
    (pc = "setup" /\ pc' = "setup") =>
        IF addCls' \in MiddlewareClasses
        THEN /\ addResult' = "ok"
             /\ Len(registry') = Len(registry) + 1
             /\ registry'[1].cls = addCls'
             /\ \A k \in DOMAIN registry : registry'[1].id # registry[k].id
             /\ Tail(registry') = registry
        ELSE /\ addResult' = "error"
             /\ registry' = registry
C10_AddMiddleware == [][C10_AddStep]_vars

C10_Witness ==
    /\ pc = "setup" /\ addResult = "error" /\ addCls = "NotMW"
    /\ N = 2 /\ registry[1].id = 2 /\ registry[2].id = 1

----------------------------------------------------------------------------
\* The pre-processing of the request gave None: __call__ saw rv is None
\* (variants B, C), or the host's own dispatch went on to the view (variant A).
PreprocessingPassed ==
    \/ ChainRan
    \/ variant = "A" /\ \E i \in Idx : log[i].ev = "view"

\* C11: in every variant, when the pre-processing of a request does not
\* short-circuit and at least one unit is registered, the dispatch of the
\* outermost unit (the first one registered) has been invoked by the time the
\* entry point returns.
C11_ChainInvokedInEveryVariant ==
    (pc = "done" /\ N >= 1 /\ PreprocessingPassed)
        => \E i \in Idx : log[i].ev = "enter" /\ log[i].u = registry[N].id

----------------------------------------------------------------------------
Pops == Count("pop", 0)

\* The positions of a request between the push of its context and the pop.
InEntryPoint ==
    {"check1", "acquire", "check2", "run", "release", "pushed", "chain",
     "finalize", "respond"}

\* The entry point has returned or raised, and the context was popped exactly
\* once, as the last thing the entry point did.
ContextPopped ==
    /\ pc = "done" /\ result.k \in {"ret", "exc"}
    /\ Pops = 1 /\ log[Len(log)].ev = "pop"

\* C12: in every variant, a request that has entered the entry point (context
\* pushed) reaches ContextPopped: the context is never popped twice, the entry
\* point has not returned or raised before the pop, and on every path the
\* request ends with exactly one pop.
C12_EveryRequestPopsOnce ==
    /\ [](Pops <= 1)
    /\ [](pc \in InEntryPoint
            => Pops = 0 /\ result.k = "none")
    /\ [](pc = "done" => ContextPopped)
    /\ (pc \in InEntryPoint) ~> ContextPopped

\* The four paths out of the entry point, each ended by one pop.
C12_Witness ==
    /\ ContextPopped /\ variant = "C" /\ result.k = "exc"
    /\ \E i \in Idx : log[i].ev = "toplevel"

C12_WitnessFinalizationFailure ==
    ContextPopped /\ result.k = "ret" /\ \E i \in Idx : log[i].ev = "logged"

C12_WitnessBridge ==
    ContextPopped /\ result.k = "ret" /\ result.v.k = "bridge"

----------------------------------------------------------------------------
\* The exceptions that were delegated to the host's top-level handler or that
\* propagate out of the entry point, by number.
EscapingExcs ==
    {log[i].x : i \in {j \in Idx : log[j].ev = "toplevel"}}
        \cup (IF result.k = "exc" THEN {result.e.id} ELSE {})

\* C13: when an exception propagates out of the entry point or is delegated to
\* the host's top-level handler, the pop receives that exception as its error
\* argument, unless the host classifies it as ignorable (then the pop receives
\* no error); a request with no such exception pops with no error.
C13_PopReceivesEscapingException ==
    pc = "done" =>
        IF EscapingExcs = {} \/ log[Len(log)].d = 1
        THEN popErr = NoExc
        ELSE popErr.id \in EscapingExcs

----------------------------------------------------------------------------
\* Finalization starts once __call__ holds a response: the chain returned one,
\* or the Bridge did at the level of __call__.
FinalizationStarted(j) ==
    \/ log[j].ev = "chain_ret"
    \/ log[j].ev = "bridge" /\ log[j].u = 0

\* The exceptions raised by a post-processing hook or by a receiver of the
\* request-finished notification (response was bound when finalization ran).
FinalizationExcs ==
    IF response = NoResp THEN {}
    ELSE {log[i].x : i \in {k \in Idx : /\ log[k].ev = "raise"
                                        /\ \E j \in 1..(k - 1) : FinalizationStarted(j)}}

WasPostProcessed == \E i \in Idx : log[i].ev = "processed"

\* The exception is logged only: not handed to the Bridge or the top-level
\* handler, not captured as the error, not attached to the pop, and the entry
\* point returns.
LoggedOnly(x) ==
    /\ \E i \in Idx : log[i].ev = "logged" /\ log[i].x = x
    /\ \A i \in Idx : log[i].ev \in {"bridge", "toplevel"} => log[i].x # x
    /\ error.id # x /\ popErr.id # x
    /\ result = Ret(response)

\* C14 as stated: in variants B and C an exception raised by the
\* post-processing hooks or by the request-finished notification is logged and
\* not propagated, and the entry point returns the response computed before
\* finalization started (not a post-processed one).
C14_ReturnsPreFinalizationResponse ==
    (pc = "done" /\ variant \in {"B", "C"}) =>
        \A x \in FinalizationExcs : LoggedOnly(x) /\ ~processed

\* C14 amended: the exception is logged and not propagated, and the entry
\* point returns response as it stood when the exception was raised: the
\* pre-finalization response when a post-processing hook raised, the
\* post-processed response when process_response had returned and the
\* notification raised.
C14_FinalizationErrorLogged ==
    (pc = "done" /\ variant \in {"B", "C"}) =>
        \A x \in FinalizationExcs : LoggedOnly(x) /\ (processed <=> WasPostProcessed)

C14_Witness ==
    /\ pc = "done" /\ variant = "B" /\ FinalizationExcs # {}
    /\ processed /\ result.k = "ret" /\ N >= 1

C14_WitnessHook ==
    /\ pc = "done" /\ variant = "C" /\ FinalizationExcs # {}
    /\ ~processed /\ result.k = "ret"

----------------------------------------------------------------------------
Pos(order, n) == CHOOSE k \in DOMAIN order : order[k] = n

\* The events of one kind ("url": a URL-value preprocessor ran, "before": a
\* before-request hook ran) visit the namespaces in the given order.
VisitsInOrder(kind, order) ==
    /\ \A i \in Idx : log[i].ev = kind => \E k \in DOMAIN order : order[k] = log[i].u
    /\ \A i, j \in Idx :
          (i < j /\ log[i].ev = kind /\ log[j].ev = kind)
              => Pos(order, log[i].u) <= Pos(order, log[j].u)

\* request.blueprints lists the innermost blueprint first: most specific
\* namespace first and the application-global namespace (0) last is this order.
MostSpecificFirst == blueprints \o <<0>>

\* The application-global namespace first, then the blueprints from the
\* outermost to the innermost.
GlobalThenOutermostFirst == <<0>> \o Reverse(blueprints)

\* C16 as stated: the pre-processing helper visits the namespaces from the most
\* specific to the least specific (application-global hooks last), for the
\* URL-value preprocessors and for the before-request hooks.
C16_MostSpecificNamespaceFirst ==
    pc = "helperDone" =>
        VisitsInOrder("url", MostSpecificFirst) /\ VisitsInOrder("before", MostSpecificFirst)

\* C16 amended: the helper visits the application-global namespace first and
\* then the blueprints from the outermost to the innermost, for the URL-value
\* preprocessors and then for the before-request hooks, and every URL-value
\* preprocessor of every namespace runs before the first before-request hook.
C16_GlobalNamespaceFirst ==
    pc = "helperDone" =>
        /\ VisitsInOrder("url", GlobalThenOutermostFirst)
        /\ VisitsInOrder("before", GlobalThenOutermostFirst)
        /\ \A i, j \in Idx : (log[i].ev = "url" /\ log[j].ev = "before") => i < j
        /\ \A n \in Names : (urlFuncs[n] > 0 /\ \E k \in DOMAIN blueprints : blueprints[k] = n)
              => \E i \in Idx : log[i].ev = "url" /\ log[i].u = n

C16_Witness ==
    /\ pc = "helperDone" /\ blueprints = <<2, 1>>
    /\ \A n \in Names : \E i, j \in Idx :
          log[i].ev = "url" /\ log[i].u = n /\ log[j].ev = "before" /\ log[j].u = n

----------------------------------------------------------------------------
\* The debugger hook was called with the application-context snapshot and
\* then with the request-context snapshot, and the pop came right after.
PreservedBeforePop ==
    /\ Len(log) >= 3
    /\ log[Len(log) - 2].ev = "preserve" /\ log[Len(log) - 2].x = 1
    /\ log[Len(log) - 1].ev = "preserve" /\ log[Len(log) - 1].x = 2
    /\ log[Len(log)].ev = "pop"

\* C18 as stated: when the request environment carries the debugger
\* preservation hook, every variant (A, B and C) invokes it with the
\* application-context and the request-context snapshots before the pop.
C18_HookInvokedInEveryVariant ==
    (pc = "done" /\ debugHook) => PreservedBeforePop

\* C18 amended: variants A and B invoke the hook, with the application-context
\* snapshot and then with the request-context snapshot, right before the pop,
\* on every path; variant C never invokes it; and no variant invokes it when
\* the environment does not carry it.
C18_HookInvokedInVariantsAB ==
    pc = "done" =>
        IF debugHook /\ variant \in {"A", "B"}
        THEN PreservedBeforePop /\ Count("preserve", 0) = 2
        ELSE Count("preserve", 0) = 0 /\ log[Len(log)].ev = "pop"

C18_Witness ==
    /\ pc = "done" /\ debugHook /\ variant = "B" /\ result.k = "exc"
    /\ PreservedBeforePop

C18_WitnessVariantC ==
    pc = "done" /\ debugHook /\ variant = "C" /\ Count("preserve", 0) = 0

----------------------------------------------------------------------------
\* The units whose dispatch is active (or whose exception is being handed to
\* the Bridge), outermost first.
Active == [j \in DOMAIN frames |-> frames[j].mw]

\* C19: at every point during a request, the RequestStack is a prefix of the
\* registry snapshot and the missing units are exactly the active ones, in
\* nesting order (the outermost active unit is the last of the registry); no
\* unit is active twice; and the units a continuation of unit k runs were
\* registered after k.
C19_StackIsPrefixOfRegistry ==
    (ChainRan /\ pc \in {"chain", "finalize", "respond", "done"}) =>
        /\ Len(gstack) + Len(frames) = N
        /\ gstack = SubSeq(registry, 1, Len(gstack))
        /\ gstack \o Reverse(Active) = registry
        /\ \A j, k \in DOMAIN frames : j # k => frames[j].mw.id # frames[k].mw.id
        /\ \A j, k \in DOMAIN frames : j < k => frames[j].mw.id < frames[k].mw.id

\* Both units are active for the second time: the outer unit called its
\* continuation twice.
C19_Witness ==
    /\ pc = "chain" /\ N = 2 /\ Len(frames) = 2 /\ gstack = <<>>
    /\ Count("enter", 2) = 2

----------------------------------------------------------------------------
\* Nesting depth of the dispatcher calls: one call per active unit, and one
\* more for the call that runs the terminal route procedure.
DepthBounded ==
    /\ Len(frames) <= N
    /\ \A i \in Idx : log[i].ev \in {"enter", "term"} => log[i].d <= N + 1

\* The outermost dispatcher call has come back to the entry point.
ChainReturned == pc \in {"finalize", "respond", "done"}

\* C20: with units that call their continuation a bounded number of times and
\* a terminal handler and a Bridge that return or raise, every dispatcher call
\* terminates (the chain started by the entry point comes back to it) and the
\* nesting depth never exceeds N + 1.
C20_ChainTerminates ==
    /\ [](ChainRan => DepthBounded)
    /\ (pc = "chain") ~> ChainReturned

\* The deepest nesting happened: the terminal call at depth N + 1 under two
\* units, the outer of which called its continuation twice; the chain is over.
C20_Witness ==
    /\ ChainReturned /\ ChainRan /\ N = 2 /\ frames = <<>>
    /\ \E i \in Idx : log[i].ev = "term" /\ log[i].d = 3
    /\ Count("enter", 2) = 2

----------------------------------------------------------------------------
\* Request r holds a RequestStack: its before_request hook has run.
HasStack(r) == creq[r].pc \in {"down", "up", "done"}

\* This step is not a step of request r.
NotStepOf(r) == creq'[r].pc = creq[r].pc /\ creq'[r].active = creq[r].active

\* C15: every request in flight has its own RequestStack, a copy of the
\* registry taken when its pre-processing ran.  In any interleaving of two
\* requests, the pops and re-appends of one never change the stack of the
\* other nor the registry, and a registration made after a request took its
\* copy does not change that request's stack.
C15_Step ==
    /\ \A r \in Requests :
          (HasStack(r) /\ NotStepOf(r))
              => StackOfIn(creq', registry', r) = StackOf(r)
    /\ \A r \in Requests :
          (creq[r].pc = "pre" /\ creq'[r].pc = "down")
              => StackOfIn(creq', registry', r) = registry
    /\ (creq' # creq) => registry' = registry
C15_StacksIndependent == [][C15_Step]_vars

\* Request 1 is two units deep in its chain and request 2 holds one unit,
\* while the registry has a unit registered after request 2 took its copy.
C15_Witness ==
    /\ creq[1].pc = "down" /\ Len(creq[1].active) = 2 /\ StackOf(1) = <<>>
    /\ creq[2].pc = "up" /\ Len(creq[2].active) = 1 /\ StackOf(2) = <<>>
    /\ Len(registry) = 2

----------------------------------------------------------------------------
\* Request r has emitted the request-started notification.
HasStarted(r) == creq[r].pc \in {"pre", "down", "up", "done"}

InitCompleted == gotFirst /\ \A f \in DOMAIN InitFuncs : initRuns[f] = 1

\* C17: in Variant B, with any number of concurrent requests and
\* initialization functions that do not raise, the first-request
\* initialization is one-time: no function is ever called twice and, once the
\* initialization is over, each has been called exactly once; at most one
\* request is inside the guard; and no request emits request-started before
\* the initialization is complete.
C17_OneTimeInitialization ==
    /\ \A f \in DOMAIN InitFuncs : initRuns[f] <= 1
    /\ gotFirst => InitCompleted
    /\ Cardinality({r \in Requests : creq[r].pc \in InsideGuard}) <= 1
    /\ \A r \in Requests : creq[r].pc \in InsideGuard => lock = r
    /\ \A r \in Requests : HasStarted(r) => InitCompleted

\* Both requests found the flag unset and went for the lock; request 2 ran the
\* functions, and request 1, inside the guard after it, is about to repeat the
\* test while request 2 has emitted request-started.
C17_Witness ==
    /\ creq[1].pc = "check2" /\ lock = 1
    /\ HasStarted(2) /\ InitCompleted

====
